---- MODULE Spec2Model ----
(***************************************************************************)
(* winroute: the Route value, its conversion to and from the native        *)
(* MIB_IPFORWARD_ROW2 row, the WindowsOperator (kernel registration,       *)
(* add/delete, callback) and the RouteManager (cache, poll, queries).      *)
(***************************************************************************)
EXTENDS Integers, Sequences, FiniteSets, TLC

(***************************************************************************)
(* Bounds of the model.                                                    *)
(***************************************************************************)
\* kernel table mutations (by this or any other process) in one behaviour
MaxMut == 2
\* length of the cache the cache operations are tried on
MaxLen == 3
\* notifications the kernel has pending when callback is tried on its inputs
MaxNotif == 2

(***************************************************************************)
(* Values: Option<T>, IpAddr, io::Result.                                  *)
(***************************************************************************)
None == <<>>
Some(x) == <<x>>
is_none(o) == o = None
is_some(o) == o # None
unwrap(o) == o[1]

\* IpAddr::V4 / IpAddr::V6; the address itself is a small number, 0 being the
\* all-zero (unspecified) address of the family
V4(a) == [fam |-> "V4", addr |-> a]
V6(a) == [fam |-> "V6", addr |-> a]
Ipv4Addr_UNSPECIFIED == V4(0)
Ipv6Addr_UNSPECIFIED == V6(0)

Ok(v) == [ok |-> TRUE, val |-> v]
Err(kind) == [ok |-> FALSE, val |-> kind]

\* winapi address family tags and the route origin tag
AF_UNSPEC == 0
AF_INET == 2
AF_INET6 == 23
MIB_IPPROTO_NETMGMT == 3

(***************************************************************************)
(* route.rs: the Route value and its builder.                              *)
(***************************************************************************)
\* Route::new as it would be with the gateway always 0.0.0.0
Route_new_gateway_v4(destination, prefix) ==
    [destination |-> destination,
     prefix      |-> prefix,
     gateway     |-> Ipv4Addr_UNSPECIFIED,
     ifindex     |-> None,
     metric      |-> None,
     luid        |-> None,
     version     |-> IF destination.fam = "V4" THEN 4 ELSE 6]

Route_new(destination, prefix) ==
    [destination |-> destination,
     prefix      |-> prefix,
     gateway     |-> IF destination.fam = "V4" THEN Ipv4Addr_UNSPECIFIED
                                                ELSE Ipv6Addr_UNSPECIFIED,
     ifindex     |-> None,
     metric      |-> None,
     luid        |-> None,
     version     |-> IF destination.fam = "V4" THEN 4 ELSE 6]

\* the destination setter as it would be without the version assignment
Route_destination_keeps_version(self, destination) ==
    [self EXCEPT !.destination = destination]

Route_destination(self, destination) ==
    [self EXCEPT !.destination = destination,
                 !.version = IF destination.fam = "V4" THEN 4 ELSE 6]
Route_prefix(self, prefix) == [self EXCEPT !.prefix = prefix]
Route_gateway(self, gateway) == [self EXCEPT !.gateway = gateway]
Route_ifindex(self, idx) == [self EXCEPT !.ifindex = Some(idx)]
Route_metric(self, metric) == [self EXCEPT !.metric = Some(metric)]
Route_luid(self, luid) == [self EXCEPT !.luid = Some(luid)]

\* IpAddr::to_string for the addresses of the model: 0.0.0.a and ::a
ip_to_string(ip) ==
    IF ip.fam = "V4" THEN "0.0.0." \o ToString(ip.addr)
    ELSE IF ip.addr = 0 THEN "::"
    ELSE "::" \o ToString(ip.addr)

\* the metric as it would be rendered through Some(unwrap_or(0))
debug_option_unwrap_or(o) ==
    "Some(" \o ToString(IF is_none(o) THEN 0 ELSE unwrap(o)) \o ")"

\* {:?} of an Option<u32>
debug_option(o) ==
    IF is_none(o) THEN "None" ELSE "Some(" \o ToString(unwrap(o)) \o ")"

\* impl Display for Route: the pieces write! puts out, in order
Display_fmt(self) ==
    << ip_to_string(self.destination), "/", ToString(self.prefix),
       " gateway ", ip_to_string(self.gateway), " metric ",
       debug_option(self.metric) >>

\* the text of a sequence of pieces
RECURSIVE concat(_)
concat(pieces) ==
    IF pieces = <<>> THEN "" ELSE Head(pieces) \o concat(Tail(pieces))

\* Route::to_string
to_string(self) == concat(Display_fmt(self))

(***************************************************************************)
(* windows.rs: MIB_IPFORWARD_ROW2 and the two conversions.                 *)
(*                                                                         *)
(* SOCKADDR_INET is a union: si_family in bytes 0..2, the v4 address       *)
(* (Ipv4.sin_addr) in bytes 4..8, where the v6 view has sin6_flowinfo, and *)
(* the v6 address (Ipv6.sin6_addr) in bytes 8..24.  The two address fields *)
(* do not overlap, so the union is a record of the tag and both fields.    *)
(***************************************************************************)
SockaddrZeroed == [si_family |-> AF_UNSPEC, sin_addr |-> 0, sin6_addr |-> 0]

\* std::mem::zeroed() followed by InitializeIpForwardEntry: addresses, prefix
\* length and interface identifiers stay zero; Metric and Protocol are set
\* by the caller right after
RowZeroed ==
    [DestinationPrefix |-> [Prefix |-> SockaddrZeroed, PrefixLength |-> 0],
     NextHop           |-> SockaddrZeroed,
     InterfaceIndex    |-> 0,
     InterfaceLuid     |-> 0,
     Metric            |-> 0,
     Protocol          |-> 0]

\* impl From<&Route> for MIB_IPFORWARD_ROW2, the NextHop part
NextHopFromGateway(gateway) ==
    IF gateway.fam = "V4"
    THEN [SockaddrZeroed EXCEPT !.si_family = AF_INET, !.sin_addr = gateway.addr]
    ELSE [SockaddrZeroed EXCEPT !.si_family = AF_INET, !.sin6_addr = gateway.addr]

\* impl From<&Route> for MIB_IPFORWARD_ROW2, the DestinationPrefix.Prefix part
PrefixFromDestination(destination) ==
    IF destination.fam = "V4"
    THEN [SockaddrZeroed EXCEPT !.si_family = AF_INET, !.sin_addr = destination.addr]
    ELSE [SockaddrZeroed EXCEPT !.si_family = AF_INET6, !.sin6_addr = destination.addr]

\* the encoding as it would be without `row.Protocol = MIB_IPPROTO_NETMGMT`
\* and with the metric copied only when set
RowFromRoute_protocol_unset(route) ==
    [RowZeroed EXCEPT
        !.InterfaceIndex = IF is_some(route.ifindex) THEN unwrap(route.ifindex) ELSE @,
        !.InterfaceLuid  = IF is_some(route.luid) THEN unwrap(route.luid) ELSE @,
        !.NextHop        = NextHopFromGateway(route.gateway),
        !.DestinationPrefix =
            [Prefix       |-> PrefixFromDestination(route.destination),
             PrefixLength |-> route.prefix],
        !.Metric         = IF is_some(route.metric) THEN unwrap(route.metric) ELSE @]

\* impl From<&Route> for MIB_IPFORWARD_ROW2
RowFromRoute(route) ==
    [RowZeroed EXCEPT
        !.InterfaceIndex = IF is_some(route.ifindex) THEN unwrap(route.ifindex) ELSE @,
        !.InterfaceLuid  = IF is_some(route.luid) THEN unwrap(route.luid) ELSE @,
        !.NextHop        = NextHopFromGateway(route.gateway),
        !.DestinationPrefix =
            [Prefix       |-> PrefixFromDestination(route.destination),
             PrefixLength |-> route.prefix],
        !.Metric         = IF is_some(route.metric) THEN unwrap(route.metric) ELSE 0,
        !.Protocol       = MIB_IPPROTO_NETMGMT]

\* the outcome of panic!("Unexpected family ...") in the place of an address,
\* and of a decode that panicked in the place of a Route
PanicAddr == [fam |-> "panic", addr |-> 0]
PanicRoute == [panic |-> TRUE]

\* the match on the family tag in impl From<&MIB_IPFORWARD_ROW2> for Route
AddrFromSockaddr(sa) ==
    IF sa.si_family = AF_INET THEN V4(sa.sin_addr)
    ELSE IF sa.si_family = AF_INET6 THEN V6(sa.sin6_addr)
    ELSE PanicAddr

\* impl From<&MIB_IPFORWARD_ROW2> for Route
RouteFromRow(row) ==
    LET dst     == AddrFromSockaddr(row.DestinationPrefix.Prefix)
        dst_len == row.DestinationPrefix.PrefixLength
        gateway == AddrFromSockaddr(row.NextHop)
    IN  IF dst = PanicAddr \/ gateway = PanicAddr THEN PanicRoute
        ELSE [Route_metric(
                Route_luid(
                  Route_ifindex(Route_new(dst, dst_len), row.InterfaceIndex),
                  row.InterfaceLuid),
                row.Metric)
              EXCEPT !.gateway = gateway]

\* code_to_error as it would be without the arm for 1168
code_to_error_without_1168(code) ==
    CASE code = 2    -> "NotFound"
      [] code = 5    -> "PermissionDenied"
      [] code = 87   -> "InvalidInput"
      [] code = 5010 -> "AlreadyExists"
      [] OTHER       -> "Other"

\* fn code_to_error: the io::ErrorKind of a kernel return code
code_to_error(code) ==
    CASE code = 2    -> "NotFound"
      [] code = 5    -> "PermissionDenied"
      [] code = 87   -> "InvalidInput"
      [] code = 5010 -> "AlreadyExists"
      [] code = 1168 -> "NotFound"
      [] OTHER       -> "Other"

(***************************************************************************)
(* manager.rs: RouteEvent and the cache operations of poll.                *)
(***************************************************************************)
RouteEvent_Add(route) == [type |-> "Add", route |-> route]
RouteEvent_Delete(route) == [type |-> "Delete", route |-> route]
RouteEvent_Change(route) == [type |-> "Change", route |-> route]

\* Vec::remove(index), 1-based
vec_remove(routes, index) ==
    SubSeq(routes, 1, index - 1) \o SubSeq(routes, index + 1, Len(routes))

\* routes.iter().position(|v| *v == route)
position_equal(routes, route) ==
    IF \E i \in 1..Len(routes) : routes[i] = route
    THEN Some(CHOOSE i \in 1..Len(routes) :
                /\ routes[i] = route
                /\ \A j \in 1..(i - 1) : routes[j] # route)
    ELSE None

\* the closure of the Change arm
same_destination_prefix(v, route) ==
    v.destination = route.destination /\ v.prefix = route.prefix

\* routes.iter().position(|v| v.destination == route.destination && v.prefix == route.prefix)
position_destination(routes, route) ==
    IF \E i \in 1..Len(routes) : same_destination_prefix(routes[i], route)
    THEN Some(CHOOSE i \in 1..Len(routes) :
                /\ same_destination_prefix(routes[i], route)
                /\ \A j \in 1..(i - 1) : ~same_destination_prefix(routes[j], route))
    ELSE None

\* the Add arm of poll
apply_add(routes, route) == Append(routes, route)

\* apply_delete as it would be with retain(|v| *v != route)
apply_delete_every_equal(routes, route) ==
    LET differs(v) == v # route
    IN  SelectSeq(routes, differs)

\* the Delete arm of poll
apply_delete(routes, route) ==
    LET index == position_equal(routes, route)
    IN  IF is_some(index) THEN vec_remove(routes, unwrap(index)) ELSE routes

\* the Change arm as it would be without routes.remove(index)
change_remove_keeps_old(routes, index) == routes

\* the first statement of the Change arm: routes.remove(index)
change_remove(routes, index) == vec_remove(routes, index)

\* the second statement of the Change arm: routes.push(route)
change_push(routes, route) == Append(routes, route)

\* the Change arm of poll, both statements
apply_change(routes, route) ==
    LET index == position_destination(routes, route)
    IN  IF is_some(index)
        THEN change_push(change_remove(routes, unwrap(index)), route)
        ELSE routes

\* the match on the event in poll, under the cache lock
apply_event(routes, event) ==
    CASE event.type = "Add"    -> apply_add(routes, event.route)
      [] event.type = "Delete" -> apply_delete(routes, event.route)
      [] event.type = "Change" -> apply_change(routes, event.route)

\* is_default as it would be with the gateway compared to 0.0.0.0 alone
is_default_v4_gateway_only(route) ==
    /\ (route.destination = Ipv4Addr_UNSPECIFIED \/ route.destination = Ipv6Addr_UNSPECIFIED)
    /\ route.gateway # Ipv4Addr_UNSPECIFIED
    /\ route.prefix = 0

\* the condition of the loop body of default_route
is_default(route) ==
    /\ (route.destination = Ipv4Addr_UNSPECIFIED \/ route.destination = Ipv6Addr_UNSPECIFIED)
    /\ route.gateway # Ipv4Addr_UNSPECIFIED
    /\ route.gateway # Ipv6Addr_UNSPECIFIED
    /\ route.prefix = 0

\* the loop of default_route from position i: Some(route) of the first hit,
\* None when the iteration ends
RECURSIVE default_route_from(_, _)
default_route_from(routes, i) ==
    IF i > Len(routes) THEN None
    ELSE IF is_default(routes[i]) THEN Some(routes[i])
    ELSE default_route_from(routes, i + 1)

\* RouteManager::default_route with the lock acquired
default_route(routes) == Ok(default_route_from(routes, 1))

(***************************************************************************)
(* The kernel side: the routing table, its rows, and what the kernel       *)
(* answers to the calls of windows.rs.                                     *)
(***************************************************************************)
\* a SOCKADDR_INET as the kernel fills it
KernelSockaddr(ip) ==
    IF ip.fam = "V4"
    THEN [SockaddrZeroed EXCEPT !.si_family = AF_INET, !.sin_addr = ip.addr]
    ELSE [SockaddrZeroed EXCEPT !.si_family = AF_INET6, !.sin6_addr = ip.addr]

KernelRow(dst, len, nexthop, ifindex, metric) ==
    [RowZeroed EXCEPT
        !.DestinationPrefix = [Prefix |-> KernelSockaddr(dst), PrefixLength |-> len],
        !.NextHop        = KernelSockaddr(nexthop),
        !.InterfaceIndex = ifindex,
        !.InterfaceLuid  = ifindex,
        !.Metric         = metric,
        !.Protocol       = MIB_IPPROTO_NETMGMT]

\* the interface a row names: by InterfaceLuid, or by InterfaceIndex when the
\* LUID is zero (the model gives an interface the same number for both)
RowInterface(row) ==
    IF row.InterfaceLuid # 0 THEN row.InterfaceLuid ELSE row.InterfaceIndex

\* what identifies an entry of the kernel table
RowKey(row) == <<row.DestinationPrefix, row.NextHop, RowInterface(row)>>

\* the entry the kernel keeps for a submitted row: both interface
\* identifiers filled in
KernelStore(row) ==
    [row EXCEPT !.InterfaceIndex = RowInterface(row),
                !.InterfaceLuid  = RowInterface(row)]

\* the rows other processes add to the table: the v4 default route and an
\* on-link route to the same destination and prefix
KernelRows ==
    { KernelRow(V4(0), 0, V4(1), 1, 1),
      KernelRow(V4(0), 0, V4(0), 1, 1) }

\* the metrics SetIpForwardEntry2 of another process gives an entry
KernelMetrics == {1, 2}

\* the tables RouteManager::new may find
InitialTables ==
    { <<>>, <<KernelRow(V4(0), 0, V4(0), 1, 1)>> }

\* the routes the application passes to add_route and delete_route
UserRoutes ==
    { Route_metric(Route_new(V4(1), 32), 1),
      Route_ifindex(Route_gateway(Route_new(V4(0), 0), V4(1)), 1),
      Route_gateway(Route_new(V6(1), 64), V6(1)) }

\* return codes of NotifyRouteChange2: 0, or ERROR_NOT_ENOUGH_MEMORY
NotifyRouteChange2_codes == {0, 8}
\* return codes of GetIpForwardTable2: 0, ERROR_FILE_NOT_FOUND, or
\* ERROR_NOT_ENOUGH_MEMORY
GetIpForwardTable2_codes == {0, 2, 8}
\* return codes of GetBestInterfaceEx for a v4 address
GetBestInterfaceEx_codes == {0, 1168}

\* return codes of CreateIpForwardEntry2(row) on table t
CreateIpForwardEntry2_codes(t, row) ==
    {5} \cup
    (IF row.InterfaceIndex = 0 /\ row.InterfaceLuid = 0 THEN {87}
     ELSE IF \E i \in 1..Len(t) : RowKey(t[i]) = RowKey(row) THEN {5010}
     ELSE {0})

\* return codes of DeleteIpForwardEntry2(row) on table t
DeleteIpForwardEntry2_codes(t, row) ==
    {5} \cup
    (IF \E i \in 1..Len(t) : RowKey(t[i]) = RowKey(row) THEN {0} ELSE {1168})

VARIABLES
    table,          \* kernel: the routing table, a sequence of rows
    ksubs,          \* kernel: registrations made by NotifyRouteChange2, each
                    \*   holding callback and the address of operator.sender
    notifq,         \* kernel: callback invocations not made yet
    nmut,           \* table mutations so far
    mgr,            \* RouteManager: "none", "inited" (inside new, after init),
                    \*   "alive", "released" (alive, but held by the polling
                    \*   thread's Arc alone), "gone" (dropped, or new failed)
    notify_handle,  \* WindowsOperator.notify_handle
    ninit,          \* init has been called again after the call made by new
    opChan,         \* the channel tx -> operator_receiver
    cache,          \* RouteManager.routes
    lock,           \* the holder of the Mutex around routes, 0 when free
    pollers,        \* the threads that call poll
    pc,             \* where each thread is inside poll
    ev,             \* the event each thread holds inside poll
    subChan,        \* the channel producer -> subscribers
    handles,        \* the Receiver clones handed out by subscribe_route_change
    received,       \* what each handle has received
    called,         \* add_route or delete_route has been called
    ret,            \* the last call of the API and what it returned
    fault,          \* "none", or how the process was brought down
    lastSend,       \* the result of sender.send in the last callback
    cbAfterDrop,    \* callback has run after the operator was dropped
    pushed,         \* history: the events callback pushed, in order
    applied,        \* history: the events poll applied to the cache, in order
    published,      \* history: the events poll republished, in order
    before,         \* history: Some(cache before the event was applied) while
                    \*   the poll that applied it has not republished it
    castRoute,      \* conversions: the Route converted
    castRow,        \* conversions: Some(row) once it is converted to a row
    castBack        \* conversions: Some(route) once the row is converted back

vars == <<table, ksubs, notifq, nmut, mgr, notify_handle, ninit, opChan, cache,
          lock, pollers, pc, ev, subChan, handles, received, called, ret, fault,
          lastSend, cbAfterDrop, pushed, applied, published, before, castRoute,
          castRow, castBack>>

kernelVars == <<table, ksubs, notifq, nmut>>
operatorVars == <<notify_handle, ninit, opChan>>
pollVars == <<lock, pc, ev>>
subscriberVars == <<subChan, handles, received>>
historyVars == <<pushed, applied, published, before>>
faultVars == <<fault, lastSend, cbAfterDrop>>
castVars == <<castRoute, castRow, castBack>>

Threads == {1, 2}
Handles == {1, 2}
NoEvent == [type |-> "none"]
\* no call of the operator was made
NoCall == [fn |-> "none", code |-> 0]
\* a call of the API and what it returned; call is the call of the operator
\* it made: the function, its arguments, the kernel's return code, its result
OperatorCall(op, val, call) == [op |-> op, val |-> val, call |-> call]
Call(op, val) == OperatorCall(op, val, NoCall)

\* the operator, and with it the Sender the kernel was given, is alive
OperatorAlive == mgr \in {"inited", "alive", "released"}

InitCommon ==
    /\ table \in InitialTables
    /\ ksubs = 0
    /\ notifq = <<>>
    /\ nmut = 0
    /\ mgr = "none"
    /\ notify_handle = None
    /\ ninit = FALSE
    /\ opChan = <<>>
    /\ cache = <<>>
    /\ lock = 0
    /\ pc = [t \in Threads |-> "idle"]
    /\ ev = [t \in Threads |-> NoEvent]
    /\ subChan = <<>>
    /\ handles = {}
    /\ received = [h \in Handles |-> <<>>]
    /\ called = FALSE
    /\ ret = Call("none", None)
    /\ fault = "none"
    /\ lastSend = "none"
    /\ cbAfterDrop = FALSE
    /\ pushed = <<>>
    /\ applied = <<>>
    /\ published = <<>>
    /\ before = None

\* no conversion is under way
NoCast == castRoute = None /\ castRow = None /\ castBack = None

\* before RouteManager::new; one thread will run the poll loop
Init == InitCommon /\ NoCast /\ pollers = {1}

(***************************************************************************)
(* windows.rs: the operator.                                               *)
(***************************************************************************)
\* WindowsOperator::register_route_listener with the kernel answering code:
\* the result, the notify_handle field afterwards, and whether the kernel
\* now holds one more registration
register_route_listener(handle, code) ==
    IF is_some(handle)
    THEN [res |-> Err(code_to_error(5010)), notify_handle |-> handle, registered |-> FALSE]
    ELSE IF code # 0
    THEN [res |-> Err(code_to_error(code)), notify_handle |-> handle, registered |-> FALSE]
    ELSE [res |-> Ok(None), notify_handle |-> handle, registered |-> TRUE]

\* WindowsOperator::init
operator_init(handle, code) == register_route_listener(handle, code)

\* WindowsOperator::read_all_routes with the kernel answering code
read_all_routes(t, code) ==
    IF code # 0 THEN Err(code_to_error(code))
    ELSE Ok([i \in 1..Len(t) |-> RouteFromRow(t[i])])

\* impl Drop for WindowsOperator: the registrations left in the kernel
operator_drop(handle, registrations) ==
    IF is_some(handle) THEN 0 ELSE registrations

\* the match of callback as it would be with Add as the catch-all arm
callback_event_add_by_default(route, notification_type) ==
    CASE notification_type = "MibParameterNotification" -> Some(RouteEvent_Change(route))
      [] notification_type = "MibDeleteInstance"        -> Some(RouteEvent_Delete(route))
      [] OTHER                                          -> Some(RouteEvent_Add(route))

\* the match on notification_type in callback: Some(event), or None for return
callback_event(route, notification_type) ==
    CASE notification_type = "MibParameterNotification" -> Some(RouteEvent_Change(route))
      [] notification_type = "MibAddInstance"           -> Some(RouteEvent_Add(route))
      [] notification_type = "MibDeleteInstance"        -> Some(RouteEvent_Delete(route))
      [] OTHER                                          -> None

\* sender.send(event) in callback, through the pointer the kernel was given.
\* While the operator lives the receiver lives too (rx in new, then
\* operator_receiver), so the send succeeds.  Once the operator is dropped
\* the pointer dangles: the read of the freed Sender may find a disconnected
\* channel (Err), may appear to succeed, or may fault.
sender_send_outcomes(operatorAlive) ==
    IF operatorAlive THEN {"Ok"} ELSE {"Ok", "Err", "fault"}

\* .unwrap() on the result of the send: the fault it raises
send_unwrap(outcome) ==
    CASE outcome = "Ok"    -> "none"
      [] outcome = "Err"   -> "kernel_thread_panic"
      [] outcome = "fault" -> "kernel_thread_fault"

\* the interfaces GetBestInterfaceEx may name
Interfaces == {1}

\* an access violation in the place of a result
Fault == [ok |-> FALSE, val |-> "access violation"]

\* find_best_interface.  For a v6 address the code writes through
\* `result as *mut u32` with result = 0, a null pointer, and passes that
\* pointer to GetBestInterfaceEx: the write faults, or, where the build
\* drops it, the kernel refuses the null pointer with code 87.
\* Each outcome is the code GetBestInterfaceEx returned (0 when it was not
\* reached) and the result of find_best_interface.
find_best_interface_outcomes(ip) ==
    IF ip.fam = "V4"
    THEN {[ip |-> ip, code |-> 0, res |-> Ok(i)] : i \in Interfaces} \cup
         {[ip |-> ip, code |-> c, res |-> Err(code_to_error(c))] :
            c \in GetBestInterfaceEx_codes \ {0}}
    ELSE {[ip |-> ip, code |-> 0, res |-> Fault],
          [ip |-> ip, code |-> 87, res |-> Err(code_to_error(87))]}

\* WindowsOperator::add_route up to the kernel call: the best-interface
\* query it made (None when it made none) and the row it hands to
\* CreateIpForwardEntry2 (None when the query ended the call)
add_route_rows(route) ==
    IF is_none(route.ifindex) /\ is_none(route.luid)
    THEN { [best |-> Some(best),
            row  |-> IF best.res.ok
                     THEN Some(RowFromRoute([route EXCEPT !.ifindex = Some(best.res.val)]))
                     ELSE None] :
           best \in find_best_interface_outcomes(route.gateway) }
    ELSE { [best |-> None, row |-> Some(RowFromRoute(route))] }

\* the result of add_route / delete_route for a kernel return code
kernel_result(err) == IF err # 0 THEN Err(code_to_error(err)) ELSE Ok(None)

(***************************************************************************)
(* Kernel actions.                                                         *)
(***************************************************************************)
\* one callback invocation per registration
Notifications(kind, row) == [i \in 1..ksubs |-> [kind |-> kind, row |-> row]]

\* the position of row's entry in table t, 0 if none
RowIndex(t, row) ==
    IF \E i \in 1..Len(t) : RowKey(t[i]) = RowKey(row)
    THEN CHOOSE i \in 1..Len(t) : RowKey(t[i]) = RowKey(row)
    ELSE 0

\* another process adds an entry
KernelAdd ==
    /\ fault = "none"
    /\ nmut < MaxMut
    /\ \E row \in KernelRows :
         /\ RowIndex(table, row) = 0
         /\ table' = Append(table, row)
         /\ notifq' = notifq \o Notifications("MibAddInstance", row)
    /\ nmut' = nmut + 1
    /\ UNCHANGED <<ksubs, mgr, operatorVars, cache, pollers, pollVars,
                   subscriberVars, called, ret, faultVars, historyVars, castVars>>

\* another process deletes an entry
KernelDelete ==
    /\ fault = "none"
    /\ nmut < MaxMut
    /\ \E i \in 1..Len(table) :
         /\ table' = vec_remove(table, i)
         /\ notifq' = notifq \o Notifications("MibDeleteInstance", table[i])
    /\ nmut' = nmut + 1
    /\ UNCHANGED <<ksubs, mgr, operatorVars, cache, pollers, pollVars,
                   subscriberVars, called, ret, faultVars, historyVars, castVars>>

\* another process changes the metric of an entry
KernelChange ==
    /\ fault = "none"
    /\ nmut < MaxMut
    /\ \E i \in 1..Len(table), m \in KernelMetrics :
         /\ m # table[i].Metric
         /\ LET row == [table[i] EXCEPT !.Metric = m]
            IN  /\ table' = [table EXCEPT ![i] = row]
                /\ notifq' = notifq \o Notifications("MibParameterNotification", row)
    /\ nmut' = nmut + 1
    /\ UNCHANGED <<ksubs, mgr, operatorVars, cache, pollers, pollVars,
                   subscriberVars, called, ret, faultVars, historyVars, castVars>>

\* the kernel thread runs callback for the oldest pending notification
Callback ==
    /\ fault = "none"
    /\ notifq # <<>>
    /\ notifq' = Tail(notifq)
    /\ cbAfterDrop' = (cbAfterDrop \/ ~OperatorAlive)
    /\ LET n     == Head(notifq)
           route == RouteFromRow(n.row)
           event == IF route = PanicRoute THEN None
                    ELSE callback_event(route, n.kind)
       IN  IF route = PanicRoute
           THEN /\ fault' = "kernel_thread_panic"
                /\ UNCHANGED <<opChan, pushed, lastSend>>
           ELSE IF is_none(event)
           THEN UNCHANGED <<opChan, pushed, lastSend, fault>>
           ELSE \E outcome \in sender_send_outcomes(OperatorAlive) :
                    /\ lastSend' = outcome
                    /\ fault' = send_unwrap(outcome)
                    /\ IF OperatorAlive
                       THEN /\ opChan' = Append(opChan, unwrap(event))
                            /\ pushed' = Append(pushed, unwrap(event))
                       ELSE UNCHANGED <<opChan, pushed>>
    /\ UNCHANGED <<table, ksubs, nmut, mgr, notify_handle, ninit, cache, pollers,
                   pollVars, subscriberVars, called, ret, applied, published, before,
                   castVars>>

(***************************************************************************)
(* manager.rs: construction, teardown and the calls of the API.            *)
(***************************************************************************)
\* RouteManager::new up to operator.init()?
NewInit ==
    /\ fault = "none"
    /\ mgr = "none"
    /\ \E code \in NotifyRouteChange2_codes :
         LET r == operator_init(notify_handle, code)
         IN  /\ notify_handle' = r.notify_handle
             /\ ksubs' = IF r.registered THEN ksubs + 1 ELSE ksubs
             /\ mgr' = IF r.res.ok THEN "inited" ELSE "gone"
             /\ ret' = IF r.res.ok THEN ret
                       ELSE OperatorCall("new", r.res,
                              [fn |-> "init", code |-> code, res |-> r.res])
    /\ UNCHANGED <<table, notifq, nmut, ninit, opChan, cache, pollers, pollVars,
                   subscriberVars, called, faultVars, historyVars, castVars>>

\* RouteManager::new from read_all_routes().unwrap() on; the unwrap of an
\* error unwinds new and drops the operator
NewRead ==
    /\ fault = "none"
    /\ mgr = "inited"
    /\ \E code \in GetIpForwardTable2_codes :
         LET r == read_all_routes(table, code)
         IN  IF r.ok
             THEN /\ cache' = r.val
                  /\ mgr' = "alive"
                  /\ ret' = OperatorCall("new", Ok(None),
                              [fn |-> "read_all_routes", code |-> code, res |-> r])
                  /\ UNCHANGED <<ksubs, opChan>>
             ELSE /\ mgr' = "gone"
                  /\ ksubs' = operator_drop(notify_handle, ksubs)
                  /\ opChan' = <<>>
                  /\ ret' = OperatorCall("new", Err("panic"),
                              [fn |-> "read_all_routes", code |-> code, res |-> r])
                  /\ UNCHANGED cache
    /\ UNCHANGED <<table, notifq, nmut, notify_handle, ninit, pollers, pollVars,
                   subscriberVars, called, faultVars, historyVars, castVars>>

\* a further call of init on the operator of a live manager
ReInit ==
    /\ fault = "none"
    /\ mgr = "alive"
    /\ ~ninit
    /\ ninit' = TRUE
    /\ \E code \in NotifyRouteChange2_codes :
         LET r == operator_init(notify_handle, code)
         IN  /\ notify_handle' = r.notify_handle
             /\ ksubs' = IF r.registered THEN ksubs + 1 ELSE ksubs
             /\ ret' = OperatorCall("init", r.res,
                          [fn |-> "init", code |-> code, res |-> r.res])
    /\ UNCHANGED <<table, notifq, nmut, mgr, opChan, cache, pollers, pollVars,
                   subscriberVars, called, faultVars, historyVars, castVars>>

\* the manager is dropped: its fields go, the operator first
Drop ==
    /\ fault = "none"
    /\ mgr = "alive"
    /\ \A t \in Threads : pc[t] = "idle"
    /\ lock = 0
    /\ mgr' = "gone"
    /\ ksubs' = operator_drop(notify_handle, ksubs)
    /\ notifq' = IF operator_drop(notify_handle, ksubs) = 0 THEN <<>> ELSE notifq
    /\ opChan' = <<>>
    /\ UNCHANGED <<table, nmut, notify_handle, ninit, cache, pollers, pollVars,
                   subscriberVars, called, ret, faultVars, historyVars, castVars>>

\* the application lets go of the manager while the polling thread keeps its
\* Arc clone: the value is not dropped, since poll borrows it
Release ==
    /\ fault = "none"
    /\ mgr = "alive"
    /\ pollers # {}
    /\ mgr' = "released"
    /\ UNCHANGED <<kernelVars, operatorVars, cache, pollers, pollVars,
                   subscriberVars, called, ret, faultVars, historyVars, castVars>>

\* the republication as it would be with the event sent twice
producer_send_twice(ch, msg) == Append(Append(ch, msg), msg)

\* producer.send(event.clone()); a message carries the number of the publication
producer_send(ch, msg) == Append(ch, msg)

\* poll as it would be if it republished the event before applying it
poll_next_send_first(at) ==
    CASE at = "idle"  -> "recv"
      [] at = "recv"  -> "send"
      [] at = "send"  -> "lock"
      [] at = "lock"  -> "apply"
      [] at = "apply" -> "idle"
      [] at = "push"  -> "idle"

\* the order of the statements of poll: recv, lock, the match under the
\* lock (with the push of the Change arm as a position of its own), send,
\* return
poll_next(at) ==
    CASE at = "idle"  -> "recv"
      [] at = "recv"  -> "lock"
      [] at = "lock"  -> "apply"
      [] at = "apply" -> "send"
      [] at = "push"  -> "send"
      [] at = "send"  -> "idle"

\* the cache lock as it would be with the guard kept until poll returns
lock_after_apply_kept(holder) == holder

\* the holder of the cache lock once the block around the match ends: the
\* MutexGuard goes out of scope there
lock_after_apply(holder) == 0

\* poll is called and reaches operator_receiver.recv()
PollCall(t) ==
    /\ fault = "none"
    /\ mgr \in {"alive", "released"}
    /\ t \in pollers
    /\ pc[t] = "idle"
    /\ pc' = [pc EXCEPT ![t] = poll_next("idle")]
    /\ UNCHANGED <<kernelVars, mgr, operatorVars, cache, lock, ev, pollers,
                   subscriberVars, called, ret, faultVars, historyVars, castVars>>

\* recv() as it would be if it emptied the channel and kept the oldest message
operator_receiver_recv_drains(ch) == [msg |-> Head(ch), rest |-> <<>>]

\* recv() as it would be on a channel that leaves the message it hands out
operator_receiver_recv_keeps(ch) == [msg |-> Head(ch), rest |-> ch]

\* recv() as it would be on a channel that hands out the newest message
operator_receiver_recv_newest(ch) ==
    [msg |-> ch[Len(ch)], rest |-> SubSeq(ch, 1, Len(ch) - 1)]

\* self.operator_receiver.recv() on a channel that holds a message: the
\* message received and what stays in the channel
operator_receiver_recv(ch) == [msg |-> Head(ch), rest |-> Tail(ch)]

\* whether recv() on the empty operator channel finds it disconnected: every
\* Sender is dropped.  The one Sender is the sender field of the operator.
operator_receiver_disconnected == ~OperatorAlive

\* recv() returns: the oldest event of the operator channel, or, on an empty
\* and disconnected channel, the RecvError that `?` hands to poll's caller
PollRecv(t) ==
    /\ fault = "none"
    /\ pc[t] = "recv"
    /\ IF opChan # <<>>
       THEN /\ ev' = [ev EXCEPT ![t] = operator_receiver_recv(opChan).msg]
            /\ opChan' = operator_receiver_recv(opChan).rest
            /\ pc' = [pc EXCEPT ![t] = poll_next("recv")]
            /\ UNCHANGED ret
       ELSE /\ operator_receiver_disconnected
            /\ pc' = [pc EXCEPT ![t] = "idle"]
            /\ ret' = Call("poll", Err("RecvError"))
            /\ UNCHANGED <<ev, opChan>>
    /\ UNCHANGED <<kernelVars, mgr, notify_handle, ninit, cache, lock, pollers,
                   subscriberVars, called, faultVars, historyVars, castVars>>

\* Mutex::lock as it would be if it never waited
lock_acquired_always(holder) == TRUE

\* Mutex::lock returns once nobody holds the lock
lock_acquired(holder) == holder = 0

\* self.routes.lock()
PollLock(t) ==
    /\ fault = "none"
    /\ pc[t] = "lock"
    /\ lock_acquired(lock)
    /\ lock' = t
    /\ pc' = [pc EXCEPT ![t] = poll_next("lock")]
    /\ UNCHANGED <<kernelVars, mgr, operatorVars, cache, ev, pollers,
                   subscriberVars, called, ret, faultVars, historyVars, castVars>>

\* whether the Change arm is taken and finds an entry, so that the match
\* changes the cache twice: routes.remove(index), then routes.push(route)
change_found(routes, event) ==
    event.type = "Change" /\ is_some(position_destination(routes, event.route))

\* the match on the event, then the guard goes out of scope; of a Change
\* that finds its entry, the removal alone
PollApply(t) ==
    /\ fault = "none"
    /\ pc[t] = "apply"
    /\ before' = Some(cache)
    /\ IF change_found(cache, ev[t])
       THEN /\ cache' = change_remove(cache,
                            unwrap(position_destination(cache, ev[t].route)))
            /\ pc' = [pc EXCEPT ![t] = "push"]
            /\ UNCHANGED <<applied, lock>>
       ELSE /\ cache' = apply_event(cache, ev[t])
            /\ applied' = Append(applied, ev[t])
            /\ lock' = lock_after_apply(t)
            /\ pc' = [pc EXCEPT ![t] = poll_next("apply")]
    /\ UNCHANGED <<kernelVars, mgr, operatorVars, ev, pollers, subscriberVars,
                   called, ret, faultVars, pushed, published, castVars>>

\* routes.push(route) of the Change arm, then the guard goes out of scope
PollPush(t) ==
    /\ fault = "none"
    /\ pc[t] = "push"
    /\ cache' = change_push(cache, ev[t].route)
    /\ applied' = Append(applied, ev[t])
    /\ lock' = lock_after_apply(t)
    /\ pc' = [pc EXCEPT ![t] = poll_next("push")]
    /\ UNCHANGED <<kernelVars, mgr, operatorVars, ev, pollers, subscriberVars,
                   called, ret, faultVars, pushed, published, before, castVars>>

\* the event is republished and poll returns
PollSend(t) ==
    /\ fault = "none"
    /\ pc[t] = "send"
    /\ subChan' = producer_send(subChan, [id |-> Len(published) + 1, event |-> ev[t]])
    /\ published' = Append(published, ev[t])
    /\ before' = None
    /\ ev' = [ev EXCEPT ![t] = NoEvent]
    /\ pc' = [pc EXCEPT ![t] = poll_next("send")]
    /\ UNCHANGED <<kernelVars, mgr, operatorVars, cache, lock, pollers, handles,
                   received, called, ret, faultVars, pushed, applied, castVars>>

\* RouteManager::routes with the lock acquired
routes(cached) == Ok(cached)

\* a call of routes(): it waits for the lock
Routes ==
    /\ fault = "none"
    /\ mgr = "alive"
    /\ lock_acquired(lock)
    /\ ret' = Call("routes", routes(cache))
    /\ UNCHANGED <<kernelVars, mgr, operatorVars, cache, pollers, pollVars,
                   subscriberVars, called, faultVars, historyVars, castVars>>

\* a call of default_route(): it waits for the lock
DefaultRoute ==
    /\ fault = "none"
    /\ mgr = "alive"
    /\ lock_acquired(lock)
    /\ ret' = Call("default_route", default_route(cache))
    /\ UNCHANGED <<kernelVars, mgr, operatorVars, cache, pollers, pollVars,
                   subscriberVars, called, faultVars, historyVars, castVars>>

\* RouteManager::subscribe_route_change: the handles after the call; the
\* new handle is a clone of self.subscribers and draws from the same channel
subscribe_route_change(hs) == hs \cup {Cardinality(hs) + 1}

Subscribe ==
    /\ fault = "none"
    /\ mgr = "alive"
    /\ handles # Handles
    /\ handles' = subscribe_route_change(handles)
    /\ UNCHANGED <<kernelVars, mgr, operatorVars, cache, pollers, pollVars,
                   subChan, received, called, ret, faultVars, historyVars, castVars>>

\* recv() on a handle: the oldest message of the shared channel leaves it
SubscriberRecv(h) ==
    /\ fault = "none"
    /\ h \in handles
    /\ subChan # <<>>
    /\ received' = [received EXCEPT ![h] = Append(@, Head(subChan))]
    /\ subChan' = Tail(subChan)
    /\ UNCHANGED <<kernelVars, mgr, operatorVars, cache, pollers, pollVars,
                   handles, called, ret, faultVars, historyVars, castVars>>

\* add_route as it would be if it put the submitted route into the cache
manager_add_route_eager(cached, row) == Append(cached, RouteFromRow(row))

\* RouteManager::add_route and RouteManager::delete_route: the cache after
\* the call that made the operator submit row
manager_add_route(cached, row) == cached
manager_delete_route(cached, row) == cached

\* RouteManager::add_route -> WindowsOperator::add_route
AddRoute ==
    /\ fault = "none"
    /\ mgr = "alive"
    /\ ~called
    /\ nmut < MaxMut
    /\ called' = TRUE
    /\ \E route \in UserRoutes : \E r \in add_route_rows(route) :
         IF is_none(r.row)
         THEN /\ ret' = OperatorCall("add_route", unwrap(r.best).res,
                          [fn |-> "add_route", route |-> route, route_after |-> route,
                           best |-> r.best, row |-> r.row,
                           code |-> unwrap(r.best).code, res |-> unwrap(r.best).res])
              /\ fault' = IF unwrap(r.best).res = Fault THEN "process_fault" ELSE fault
              /\ UNCHANGED <<table, notifq, nmut, cache>>
         ELSE \E err \in CreateIpForwardEntry2_codes(table, unwrap(r.row)) :
                /\ ret' = OperatorCall("add_route", kernel_result(err),
                            [fn |-> "add_route", route |-> route, route_after |-> route,
                             best |-> r.best, row |-> r.row,
                             code |-> err, res |-> kernel_result(err)])
                /\ fault' = fault
                /\ cache' = manager_add_route(cache, unwrap(r.row))
                /\ IF err = 0
                   THEN /\ table' = Append(table, KernelStore(unwrap(r.row)))
                        /\ notifq' = notifq \o
                              Notifications("MibAddInstance", KernelStore(unwrap(r.row)))
                        /\ nmut' = nmut + 1
                   ELSE UNCHANGED <<table, notifq, nmut>>
    /\ UNCHANGED <<ksubs, mgr, operatorVars, pollers, pollVars,
                   subscriberVars, lastSend, cbAfterDrop, historyVars, castVars>>

\* RouteManager::delete_route -> WindowsOperator::delete_route
DeleteRoute ==
    /\ fault = "none"
    /\ mgr = "alive"
    /\ ~called
    /\ nmut < MaxMut
    /\ called' = TRUE
    /\ \E route \in UserRoutes :
         LET row == RowFromRoute(route)
         IN  \E err \in DeleteIpForwardEntry2_codes(table, row) :
                /\ ret' = OperatorCall("delete_route", kernel_result(err),
                            [fn |-> "delete_route", route |-> route, row |-> Some(row),
                             code |-> err, res |-> kernel_result(err)])
                /\ cache' = manager_delete_route(cache, row)
                /\ IF err = 0
                   THEN /\ table' = vec_remove(table, RowIndex(table, row))
                        /\ notifq' = notifq \o
                              Notifications("MibDeleteInstance", table[RowIndex(table, row)])
                        /\ nmut' = nmut + 1
                   ELSE UNCHANGED <<table, notifq, nmut>>
    /\ UNCHANGED <<ksubs, mgr, operatorVars, pollers, pollVars,
                   subscriberVars, faultVars, historyVars, castVars>>

Poll == \E t \in Threads :
    \/ PollCall(t)
    \/ PollRecv(t)
    \/ PollLock(t)
    \/ PollApply(t)
    \/ PollPush(t)
    \/ PollSend(t)

Kernel == KernelAdd \/ KernelDelete \/ KernelChange \/ Callback

\* the manager from construction to teardown, with the kernel changing the
\* table under it and one thread polling
Next ==
    \/ Kernel
    \/ NewInit
    \/ NewRead
    \/ Drop
    \/ Poll

Spec == Init /\ [][Next]_vars

\* a live manager with the application calling the API
NextApi ==
    \/ Kernel
    \/ NewInit
    \/ NewRead
    \/ Poll
    \/ Routes
    \/ DefaultRoute
    \/ Subscribe
    \/ AddRoute
    \/ DeleteRoute

SpecApi == Init /\ [][NextApi]_vars

\* a live manager with handles receiving what poll republishes
NextSubscribers ==
    \/ Kernel
    \/ NewInit
    \/ NewRead
    \/ Poll
    \/ Subscribe
    \/ \E h \in Handles : SubscriberRecv(h)

SpecSubscribers == Init /\ [][NextSubscribers]_vars

\* the handles keep receiving: a handle blocked in recv() is woken when the
\* channel holds a message
SpecSubscribersFair ==
    SpecSubscribers /\ WF_vars(\E h \in Handles : SubscriberRecv(h))

\* the operator initialised more than once
NextInit ==
    \/ Kernel
    \/ NewInit
    \/ NewRead
    \/ ReInit
    \/ Drop
    \/ Poll

SpecInit == Init /\ [][NextInit]_vars

\* two threads run the poll loop while the application reads the cache
InitPollers == InitCommon /\ NoCast /\ pollers = Threads

NextPollers ==
    \/ Kernel
    \/ NewInit
    \/ NewRead
    \/ Poll
    \/ Routes
    \/ DefaultRoute

SpecPollers == InitPollers /\ [][NextPollers]_vars

\* the application shuts down while a thread runs the poll loop
NextShutdown ==
    \/ Kernel
    \/ NewInit
    \/ NewRead
    \/ Poll
    \/ Release

SpecShutdown == Init /\ [][NextShutdown]_vars

\* the polling thread and the kernel's callback thread keep running
SpecShutdownFair ==
    SpecShutdown /\ WF_vars(Poll) /\ WF_vars(Callback)

(***************************************************************************)
(* The cache operations on every cache of up to MaxLen routes.             *)
(***************************************************************************)
\* the routes a cache may hold: what callback and read_all_routes decode
CacheRows ==
    { KernelRow(V4(0), 0, V4(1), 1, 1),
      KernelRow(V4(0), 0, V4(1), 1, 2),
      KernelRow(V4(0), 0, V4(0), 1, 1),
      KernelRow(V6(0), 0, V6(1), 1, 1),
      KernelRow(V6(0), 0, V6(0), 1, 1),
      KernelRow(V4(1), 0, V4(1), 1, 1) }
CacheRoutes == { RouteFromRow(row) : row \in CacheRows }
CacheEvents ==
    { callback_event(route, kind)[1] :
        route \in CacheRoutes,
        kind \in {"MibParameterNotification", "MibAddInstance", "MibDeleteInstance"} }
Caches == UNION { [1..n -> CacheRoutes] : n \in 0..MaxLen }

\* a live manager with any cache and one event waiting in the operator channel
InitCache ==
    /\ table = <<>>
    /\ ksubs = 1
    /\ notifq = <<>>
    /\ nmut = 0
    /\ mgr = "alive"
    /\ notify_handle = None
    /\ ninit = FALSE
    /\ \E event \in CacheEvents : opChan = <<event>> /\ pushed = <<event>>
    /\ cache \in Caches
    /\ lock = 0
    /\ pollers = {1}
    /\ pc = [t \in Threads |-> "idle"]
    /\ ev = [t \in Threads |-> NoEvent]
    /\ subChan = <<>>
    /\ handles = {}
    /\ received = [h \in Handles |-> <<>>]
    /\ called = FALSE
    /\ ret = Call("none", None)
    /\ fault = "none"
    /\ lastSend = "none"
    /\ cbAfterDrop = FALSE
    /\ applied = <<>>
    /\ published = <<>>
    /\ before = None
    /\ NoCast

NextCache == Poll \/ DefaultRoute

SpecCache == InitCache /\ [][NextCache]_vars

(***************************************************************************)
(* The conversions Route -> MIB_IPFORWARD_ROW2 -> Route on every route the *)
(* builder makes from a small set of field values.                         *)
(***************************************************************************)
CastAddrs == {V4(0), V4(1), V6(0), V6(1)}
CastPrefixes == {0, 32}
OptionOf(S) == {None} \cup {Some(x) : x \in S}

\* the builder chain with the optional setters called or not
Build(destination, prefix, gateway, ifindex, metric, luid) ==
    LET r0 == Route_gateway(Route_new(destination, prefix), gateway)
        r1 == IF is_some(ifindex) THEN Route_ifindex(r0, unwrap(ifindex)) ELSE r0
        r2 == IF is_some(metric) THEN Route_metric(r1, unwrap(metric)) ELSE r1
    IN  IF is_some(luid) THEN Route_luid(r2, unwrap(luid)) ELSE r2

CastRoutes ==
    { Build(d, p, g, i, m, l) :
        d \in CastAddrs, p \in CastPrefixes, g \in CastAddrs,
        i \in OptionOf({0, 1}), m \in OptionOf({0, 1}), l \in OptionOf({0, 1}) }

InitCast ==
    /\ InitCommon
    /\ pollers = {1}
    /\ castRoute \in {Some(r) : r \in CastRoutes}
    /\ castRow = None
    /\ castBack = None

\* MIB_IPFORWARD_ROW2::from(&route)
CastToRow ==
    /\ castRow = None
    /\ castRow' = Some(RowFromRoute(unwrap(castRoute)))
    /\ UNCHANGED <<kernelVars, mgr, operatorVars, cache, pollers, pollVars,
                   subscriberVars, called, ret, faultVars, historyVars,
                   castRoute, castBack>>

\* Route::from(&row)
CastToRoute ==
    /\ castRow # None
    /\ castBack = None
    /\ castBack' = Some(RouteFromRow(unwrap(castRow)))
    /\ UNCHANGED <<kernelVars, mgr, operatorVars, cache, pollers, pollVars,
                   subscriberVars, called, ret, faultVars, historyVars,
                   castRoute, castRow>>

NextCast == CastToRow \/ CastToRoute

SpecCast == InitCast /\ [][NextCast]_vars

(***************************************************************************)
(* callback on every notification kind and on rows of every family tag.    *)
(***************************************************************************)
\* the values of MIB_NOTIFICATION_TYPE
NotificationTypes ==
    {"MibParameterNotification", "MibAddInstance", "MibDeleteInstance",
     "MibInitialNotification"}

\* a row whose next hop carries a family tag that is neither AF_INET nor
\* AF_INET6
RowUnknownFamily ==
    [KernelRow(V4(1), 32, V4(0), 1, 1) EXCEPT !.NextHop = SockaddrZeroed]

\* the rows callback is handed
CallbackRows == KernelRows \cup {RowUnknownFamily}

\* a live manager with one subscriber handle and notifications pending
InitCallback ==
    /\ table = <<>>
    /\ ksubs = 1
    /\ notifq \in [1..MaxNotif ->
                      [kind : NotificationTypes, row : CallbackRows]]
    /\ nmut = 0
    /\ mgr = "alive"
    /\ notify_handle = None
    /\ ninit = FALSE
    /\ opChan = <<>>
    /\ cache = <<>>
    /\ lock = 0
    /\ pollers = {1}
    /\ pc = [t \in Threads |-> "idle"]
    /\ ev = [t \in Threads |-> NoEvent]
    /\ subChan = <<>>
    /\ handles = {1}
    /\ received = [h \in Handles |-> <<>>]
    /\ called = FALSE
    /\ ret = Call("none", None)
    /\ fault = "none"
    /\ lastSend = "none"
    /\ cbAfterDrop = FALSE
    /\ pushed = <<>>
    /\ applied = <<>>
    /\ published = <<>>
    /\ before = None
    /\ NoCast

NextCallback ==
    \/ Callback
    \/ Poll
    \/ \E h \in Handles : SubscriberRecv(h)

SpecCallback == InitCallback /\ [][NextCallback]_vars

(***************************************************************************)
(* The builder of route.rs and the text of a route.                        *)
(***************************************************************************)
InitBuild == InitCommon /\ table = <<>> /\ pollers = {1} /\ NoCast

\* Route::new(destination, prefix)
BuildNew ==
    /\ castRoute = None
    /\ \E destination \in CastAddrs, prefix \in CastPrefixes :
         /\ castRoute' = Some(Route_new(destination, prefix))
         /\ ret' = Call("Route::new", <<destination, prefix>>)
    /\ UNCHANGED <<kernelVars, mgr, operatorVars, cache, pollers, pollVars,
                   subscriberVars, called, faultVars, historyVars, castRow, castBack>>

\* the call of a setter on the route built so far
BuildSet(op, route, val) ==
    /\ castRoute # None
    /\ castRoute' = Some(route)
    /\ ret' = Call(op, val)
    /\ UNCHANGED <<kernelVars, mgr, operatorVars, cache, pollers, pollVars,
                   subscriberVars, called, faultVars, historyVars, castRow, castBack>>

BuildDestination ==
    \E destination \in CastAddrs :
        BuildSet("destination", Route_destination(unwrap(castRoute), destination), destination)
BuildPrefix ==
    \E prefix \in CastPrefixes :
        BuildSet("prefix", Route_prefix(unwrap(castRoute), prefix), prefix)
BuildGateway ==
    \E gateway \in CastAddrs :
        BuildSet("gateway", Route_gateway(unwrap(castRoute), gateway), gateway)
BuildIfindex ==
    \E idx \in {0, 1} :
        BuildSet("ifindex", Route_ifindex(unwrap(castRoute), idx), idx)
BuildMetric ==
    \E metric \in {0, 1} :
        BuildSet("metric", Route_metric(unwrap(castRoute), metric), metric)
BuildLuid ==
    \E luid \in {0, 1} :
        BuildSet("luid", Route_luid(unwrap(castRoute), luid), luid)

\* route.to_string()
ToText ==
    /\ castRoute # None
    /\ ret' = Call("to_string", [text   |-> to_string(unwrap(castRoute)),
                                 pieces |-> Display_fmt(unwrap(castRoute))])
    /\ UNCHANGED <<kernelVars, mgr, operatorVars, cache, pollers, pollVars,
                   subscriberVars, called, faultVars, historyVars, castVars>>

NextBuild ==
    \/ BuildNew
    \/ BuildDestination
    \/ BuildPrefix
    \/ BuildGateway
    \/ BuildIfindex
    \/ BuildMetric
    \/ BuildLuid
    \/ ToText

SpecBuild == InitBuild /\ [][NextBuild]_vars

(***************************************************************************)
(* Properties.                                                             *)
(***************************************************************************)
\* the number of entries of s equal to x
Count(s, x) == Cardinality({i \in 1..Len(s) : s[i] = x})
Range(s) == {s[i] : i \in 1..Len(s)}

\* thread t takes the step of poll that ends the match on its event
Applies(t) == pc[t] \in {"apply", "push"} /\ pc'[t] = "send"

\* thread t takes a step of poll inside the match on its event
Mutates(t) == pc[t] \in {"apply", "push"} /\ pc'[t] # pc[t]

\* the cache as it was when thread t, which is inside the match, entered it
Entered(t) == IF pc[t] = "push" THEN unwrap(before) ELSE cache

\* C1: when poll applies Change(r) to a cache that holds an entry with r's
\* destination and prefix, one such entry is replaced by r: the cache loses
\* one copy of that entry, gains one copy of r, and holds every other entry
\* as often as before.
C1_ChangeReplacesEntry ==
    [][\A t \in Threads :
        LET r   == ev[t].route
            old == Entered(t)
        IN  ( /\ Applies(t)
              /\ ev[t].type = "Change"
              /\ \E i \in 1..Len(old) :
                    old[i].destination = r.destination /\ old[i].prefix = r.prefix )
            => \E i \in 1..Len(old) :
                 /\ old[i].destination = r.destination
                 /\ old[i].prefix = r.prefix
                 /\ Count(cache', r) >= 1
                 /\ Len(cache') = Len(old)
                 /\ \A x \in Range(old) \cup Range(cache') \cup {r} :
                       Count(cache', x) =
                           Count(old, x) - (IF x = old[i] THEN 1 ELSE 0)
                                         + (IF x = r THEN 1 ELSE 0)
      ]_vars

\* C1 witness: Change(r) has been applied to a cache of three entries whose
\* second entry had r's destination and prefix and another metric; r is now
\* the last entry and the two other entries are still there.
C1_Witness ==
    /\ pc[1] = "send"
    /\ ev[1].type = "Change"
    /\ before # None
    /\ Len(unwrap(before)) = 3
    /\ LET old == unwrap(before)
           r   == ev[1].route
       IN  /\ old[2].destination = r.destination
           /\ old[2].prefix = r.prefix
           /\ old[2].metric # r.metric
           /\ old[1].destination # r.destination
           /\ old[3].prefix = r.prefix /\ old[3].gateway # r.gateway
           /\ cache = <<old[1], old[3], r>>

\* C2: when poll applies Delete(r), the first cache entry equal to r in all
\* fields is removed and the other entries keep their order; a cache that
\* holds r alone becomes empty; a cache with no entry equal to r is unchanged.
C2_DeleteRemovesFirstEqual ==
    [][\A t \in Threads :
        LET r == ev[t].route
        IN  (Applies(t) /\ ev[t].type = "Delete")
            => /\ (\A i \in 1..Len(cache) : cache[i] # r) => cache' = cache
               /\ cache = <<r>> => cache' = <<>>
               /\ (\E i \in 1..Len(cache) : cache[i] = r)
                    => \E i \in 1..Len(cache) :
                         /\ cache[i] = r
                         /\ \A j \in 1..(i - 1) : cache[j] # r
                         /\ Len(cache') = Len(cache) - 1
                         /\ \A j \in 1..(i - 1) : cache'[j] = cache[j]
                         /\ \A j \in i..Len(cache') : cache'[j] = cache[j + 1]
      ]_vars

\* C2 witness: Delete(r) has been applied to a cache <<r, x, r>>; the first
\* r is gone and <<x, r>> is left.
C2_Witness ==
    /\ pc[1] = "send"
    /\ ev[1].type = "Delete"
    /\ before # None
    /\ Len(unwrap(before)) = 3
    /\ LET old == unwrap(before)
           r   == ev[1].route
       IN  /\ old[1] = r /\ old[2] # r /\ old[3] = r
           /\ cache = <<old[2], r>>

\* the default-route predicate of the data model: destination all-zero,
\* prefix 0, gateway not the all-zero address of its family
DefaultRouteInvariant(route) ==
    /\ route.destination.addr = 0
    /\ route.prefix = 0
    /\ route.gateway.addr # 0

\* C3: default_route() returns the first cache entry, in cache order, that
\* satisfies the default-route predicate, and "none found" exactly when no
\* entry satisfies it.
C3_DefaultRouteFirstMatch ==
    [][(ret' # ret /\ ret'.op = "default_route")
        => /\ ret'.val.ok
           /\ IF \E i \in 1..Len(cache) : DefaultRouteInvariant(cache[i])
              THEN \E i \in 1..Len(cache) :
                     /\ DefaultRouteInvariant(cache[i])
                     /\ \A j \in 1..(i - 1) : ~DefaultRouteInvariant(cache[j])
                     /\ ret'.val.val = Some(cache[i])
              ELSE ret'.val.val = None
      ]_vars

\* C3 witness: default_route() has returned the third entry of a cache whose
\* first entry is a v6 route to ::/0 with gateway :: and whose second entry
\* has a gateway but a destination that is not all-zero.
C3_Witness ==
    /\ ret.op = "default_route"
    /\ applied = <<>>
    /\ Len(cache) = 3
    /\ cache[1].destination = Ipv6Addr_UNSPECIFIED
    /\ cache[1].gateway = Ipv6Addr_UNSPECIFIED
    /\ cache[2].destination.addr # 0
    /\ cache[2].gateway.addr # 0
    /\ DefaultRouteInvariant(cache[3])
    /\ ret.val.val = Some(cache[3])

\* C4: a second call of init on the same operator, after a first init
\* succeeded, fails with AlreadyExists and leaves the kernel with a single
\* registration.
C4_SecondInitAlreadyExists ==
    (ninit /\ ret.op = "init")
        => /\ ~ret.val.ok
           /\ ret.val.val = "AlreadyExists"
           /\ ksubs <= 1

\* C5: converting a Route to the native row and the row back gives a Route
\* with the same destination, prefix, gateway, ifindex, metric and luid,
\* unset optional fields staying unset.
C5_RoundTrip ==
    is_some(castBack)
        => LET route == unwrap(castRoute)
               back  == unwrap(castBack)
           IN  /\ back.destination = route.destination
               /\ back.prefix = route.prefix
               /\ back.gateway = route.gateway
               /\ back.ifindex = route.ifindex
               /\ back.metric = route.metric
               /\ back.luid = route.luid

IsPrefix(a, b) == Len(a) <= Len(b) /\ SubSeq(b, 1, Len(a)) = a

\* the event thread 1 holds while its pc is one of pcs
Held(pcs) == IF pc[1] \in pcs THEN <<ev[1]>> ELSE <<>>

\* the events of the messages of a channel, in order
EventsOf(ch) == [i \in 1..Len(ch) |-> ch[i].event]

\* C6: with a single thread calling poll, the events are applied to the
\* cache in the order callback pushed them and republished in that order:
\* what was applied is a prefix of what was pushed, what was published a
\* prefix of what was applied, and the rest is, in order, the event poll
\* holds and the events still in the operator channel.
C6_FifoSinglePoller ==
    pollers = {1}
        => /\ IsPrefix(applied, pushed)
           /\ IsPrefix(published, applied)
           /\ OperatorAlive => pushed = applied \o Held({"lock", "apply", "push"}) \o opChan
           /\ applied = published \o Held({"send"})
           /\ EventsOf(subChan) = published

\* C6 witness: two different events were pushed and both have been applied
\* and republished, in the order of the pushes.
C6_Witness ==
    /\ Len(pushed) = 2
    /\ pushed[1] # pushed[2]
    /\ applied = pushed
    /\ published = pushed
    /\ EventsOf(subChan) = pushed

\* C7: add_route and delete_route leave the cache unchanged whether they
\* succeed or fail, routes, default_route and subscribe_route_change leave
\* it unchanged, and after construction only the step of poll that applies
\* an event changes it.
C7_CacheChangedOnlyByPoll ==
    [][ /\ called' # called => cache' = cache
        /\ (ret' # ret /\ ret'.op \in {"routes", "default_route"}) => cache' = cache
        /\ handles' # handles => cache' = cache
        /\ cache' # cache
             => \/ \E t \in Threads : Mutates(t)
                \/ mgr = "inited" /\ mgr' = "alive"
      ]_vars

\* C7 witness: add_route succeeded, the kernel table holds the new entry,
\* and routes() has since returned the cache, which does not hold it.
C7_Witness ==
    /\ called
    /\ ret.op = "routes"
    /\ ret.val.val = cache
    /\ \E i \in 1..Len(table) :
         /\ table[i].DestinationPrefix.PrefixLength = 32
         /\ \A j \in 1..Len(cache) : cache[j] # RouteFromRow(table[i])

\* the numbers of the publications a handle has received, and of those
\* still in the subscriber channel
ReceivedIds(h) == {received[h][i].id : i \in 1..Len(received[h])}
QueuedIds == {subChan[i].id : i \in 1..Len(subChan)}

\* C8: each event republished by poll is received by exactly one handle: no
\* publication is received twice, by two handles or by one; every
\* publication is in the channel or has been received; and, the handles
\* receiving, every publication is eventually received.
C8_ExactlyOneHandle ==
    /\ [](/\ \A g, h \in Handles : g # h => ReceivedIds(g) \cap ReceivedIds(h) = {}
          /\ \A h \in Handles :
                /\ Cardinality(ReceivedIds(h)) = Len(received[h])
                /\ ReceivedIds(h) \cap QueuedIds = {}
                /\ \A i \in 1..Len(received[h]) :
                      received[h][i].event = published[received[h][i].id]
          /\ Cardinality(QueuedIds) = Len(subChan)
          /\ QueuedIds \cup UNION {ReceivedIds(h) : h \in Handles} = 1..Len(published))
    /\ \A n \in 1..MaxMut :
          [](n \in QueuedIds /\ handles # {}
               => <>(\E h \in Handles : n \in ReceivedIds(h)))

\* C8 witness: two handles exist, two events were republished, and each
\* handle has received one of them.
C8_Witness ==
    /\ handles = {1, 2}
    /\ Len(published) = 2
    /\ Len(received[1]) = 1
    /\ Len(received[2]) = 1
    /\ received[1][1].id # received[2][1].id

\* C9: when the push of callback fails because the receiving end is gone,
\* the failure is swallowed: the kernel thread neither panics nor faults.
C9_PushFailureSwallowed ==
    lastSend = "Err" => fault = "none"

\* C10: a successful init stores the native subscription handle, dropping
\* the operator cancels the subscription, and callback never runs after the
\* operator has been dropped.
C10_NoCallbackAfterDrop ==
    /\ (OperatorAlive /\ ksubs > 0) => is_some(notify_handle)
    /\ mgr = "gone" => ksubs = 0
    /\ ~cbAfterDrop

\* C11: once the application has let go of the manager, a poll blocked in
\* recv eventually returns the error of a closed channel.
C11_BlockedPollReturnsError ==
    \A t \in Threads :
        (mgr = "released" /\ pc[t] = "recv")
            ~> (pc[t] = "idle" /\ ret.op = "poll" /\ ~ret.val.ok)

\* C12: Route::new(destination, prefix) returns a route with that
\* destination and prefix, the unspecified address of the destination's
\* family as gateway, and ifindex, metric and luid unset.
C12_NewDefaults ==
    ret.op = "Route::new" =>
        LET route       == unwrap(castRoute)
            destination == ret.val[1]
            prefix      == ret.val[2]
        IN  /\ route.destination = destination
            /\ route.prefix = prefix
            /\ destination.fam = "V4" => route.gateway = V4(0)
            /\ destination.fam = "V6" => route.gateway = V6(0)
            /\ route.ifindex = None
            /\ route.metric = None
            /\ route.luid = None

\* C12 witness: Route::new was called with a v6 destination and a non-zero
\* prefix.
C12_Witness ==
    /\ ret.op = "Route::new"
    /\ ret.val = <<V6(1), 32>>
    /\ unwrap(castRoute).gateway = V6(0)

\* C16: after any sequence of builder calls the version of the route is 4
\* iff its destination is a v4 address and 6 iff it is a v6 address.
C16_VersionFollowsDestination ==
    castRoute # None =>
        LET route == unwrap(castRoute)
        IN  /\ route.version = 4 <=> route.destination.fam = "V4"
            /\ route.version = 6 <=> route.destination.fam = "V6"

\* C16 witness: the destination setter has just replaced a destination by a
\* v6 address on a route whose other fields were all set.
C16_Witness ==
    /\ ret.op = "destination"
    /\ ret.val = V6(1)
    /\ unwrap(castRoute).version = 6
    /\ unwrap(castRoute).gateway = V4(1)
    /\ unwrap(castRoute).ifindex # None
    /\ unwrap(castRoute).metric # None
    /\ unwrap(castRoute).luid # None

\* C17: the text of a route is "<destination>/<prefix> gateway <gateway>
\* metric <m>"; <m> depends on the metric alone, the <m> of an unset metric
\* differs from the <m> of every set metric, and ifindex and luid do not show.
C17_Rendering ==
    ret.op = "to_string" =>
        LET route == unwrap(castRoute)
            out   == ret.val
            m     == out.pieces[7]
        IN  /\ Len(out.pieces) = 7
            /\ SubSeq(out.pieces, 1, 6) =
                  << ip_to_string(route.destination), "/", ToString(route.prefix),
                     " gateway ", ip_to_string(route.gateway), " metric " >>
            /\ out.text = ip_to_string(route.destination) \o "/" \o
                           ToString(route.prefix) \o " gateway " \o
                           ip_to_string(route.gateway) \o " metric " \o m
            /\ \A other \in CastRoutes :
                  /\ other.metric = route.metric => Display_fmt(other)[7] = m
                  /\ is_none(other.metric) # is_none(route.metric)
                        => Display_fmt(other)[7] # m
                  /\ ( /\ other.destination = route.destination
                       /\ other.prefix = route.prefix
                       /\ other.gateway = route.gateway
                       /\ other.metric = route.metric )
                        => to_string(other) = out.text

\* C17 witness: a route with an unset metric and with ifindex and luid set
\* has been rendered.
C17_Witness ==
    /\ ret.op = "to_string"
    /\ ret.val.text = "0.0.0.1/32 gateway 0.0.0.0 metric None"
    /\ unwrap(castRoute).ifindex = Some(1)
    /\ unwrap(castRoute).luid = Some(1)

\* the kind the error taxonomy gives a kernel return code
Taxonomy(code) ==
    IF code = 5 THEN "PermissionDenied"
    ELSE IF code \in {2, 1168} THEN "NotFound"
    ELSE IF code = 87 THEN "InvalidInput"
    ELSE IF code = 5010 THEN "AlreadyExists"
    ELSE "Other"

C14_AddRouteResolvesInterface ==
    ret.call.fn = "add_route" =>
        LET c     == ret.call
            route == c.route
        IN  /\ c.route_after = route
            /\ IF is_some(route.ifindex) \/ is_some(route.luid)
               THEN /\ c.best = None
                    /\ c.row = Some(RowFromRoute(route))
               ELSE /\ c.best # None
                    /\ unwrap(c.best).ip = route.gateway
                    /\ IF unwrap(c.best).res.ok
                       THEN c.row = Some(RowFromRoute(
                                [route EXCEPT !.ifindex = Some(unwrap(c.best).res.val)]))
                       ELSE /\ c.row = None
                            /\ fault = "none"
                            /\ ret.val = unwrap(c.best).res
                            /\ ret.val.val \in {"NotFound", "PermissionDenied",
                                  "InvalidInput", "AlreadyExists", "Other"}

\* C15: the row encoded from a route has the protocol tag of the
\* network-management origin, and its interface index, LUID and metric are
\* those of the route when set and zero when unset.
C15_EncodeCopiesOptionals ==
    castRow # None =>
        LET route == unwrap(castRoute)
            row   == unwrap(castRow)
        IN  /\ row.Protocol = MIB_IPPROTO_NETMGMT
            /\ row.InterfaceIndex =
                  IF route.ifindex = None THEN 0 ELSE route.ifindex[1]
            /\ row.InterfaceLuid =
                  IF route.luid = None THEN 0 ELSE route.luid[1]
            /\ row.Metric =
                  IF route.metric = None THEN 0 ELSE route.metric[1]

\* C15 witness: a route as Route::new makes it has been encoded, with
\* metric 0.
C15_Witness ==
    /\ castRoute = Some(Route_new(V4(1), 32))
    /\ castRow # None
    /\ unwrap(castRow).Metric = 0
    /\ unwrap(castRow).Protocol = MIB_IPPROTO_NETMGMT

\* C18: a thread holds the cache lock only while it applies an event: never
\* while it waits in recv, never while it republishes; so whenever every
\* thread inside poll is waiting in recv the lock is free for routes() and
\* default_route().
C18_LockNotHeldAcrossRecv ==
    /\ \A t \in Threads : lock = t => pc[t] \in {"apply", "push"}
    /\ \A t \in Threads : pc[t] \in {"recv", "send"} => lock # t
    /\ (\A t \in pollers : pc[t] = "recv") => lock = 0

\* C18 witness: both threads have applied an event; now one republishes, the
\* other waits in recv on an empty channel, and routes() has just returned.
C18_Witness ==
    /\ Len(applied) = 2
    /\ pc[1] = "recv"
    /\ pc[2] = "send"
    /\ opChan = <<>>
    /\ ret.op = "routes"
    /\ lock = 0

\* the messages that are in the subscriber channel or were received from it
Republished ==
    { subChan[i] : i \in 1..Len(subChan) } \cup
    UNION { { received[h][i] : i \in 1..Len(received[h]) } : h \in Handles }

\* C19: poll applies an event before it republishes it: a thread about to
\* republish has applied its event to the cache and released the lock, and
\* every event a subscriber can receive or has received was applied before.
C19_AppliedBeforeRepublished ==
    /\ \A t \in Threads :
          pc[t] = "send" =>
              /\ lock # t
              /\ before # None
              /\ applied # <<>>
              /\ applied[Len(applied)] = ev[t]
              /\ cache = apply_event(unwrap(before), ev[t])
    /\ \A msg \in Republished :
          /\ msg.id <= Len(applied)
          /\ applied[msg.id] = msg.event

\* C19 witness: a subscriber has received an Add event while its route is in
\* the cache and nobody holds the lock.
C19_Witness ==
    /\ received[1] # <<>>
    /\ received[1][1].event.type = "Add"
    /\ \E i \in 1..Len(cache) : cache[i] = received[1][1].event.route
    /\ lock = 0

\* C20: when poll applies Change(r), r is the last entry of the cache
\* afterwards; when no entry had r's destination and prefix the cache is the
\* old cache with r appended.
C20_ChangeAlwaysAppends ==
    [][\A t \in Threads :
        LET r   == ev[t].route
            old == Entered(t)
        IN  (Applies(t) /\ ev[t].type = "Change")
            => /\ cache' # <<>>
               /\ cache'[Len(cache')] = r
               /\ (\A i \in 1..Len(old) :
                      old[i].destination # r.destination \/ old[i].prefix # r.prefix)
                    => cache' = Append(old, r)
      ]_vars

\* the routes of the kernel table as read_all_routes and callback decode them
TableRoutes == [i \in 1..Len(table) |-> RouteFromRow(table[i])]

\* C21: with one notification per table mutation, whenever a constructed
\* manager has drained every pending event the cache holds the routes of the
\* kernel table, each as often as the table does; also when the table was
\* changed between init and the seeding read.
C21_CacheMatchesTableWhenDrained ==
    ( /\ mgr = "alive"
      /\ ksubs = 1
      /\ notifq = <<>>
      /\ opChan = <<>>
      /\ \A t \in Threads : pc[t] \in {"idle", "recv"} )
    => \A x \in Range(cache) \cup Range(TableRoutes) :
          Count(cache, x) = Count(TableRoutes, x)

\* callback runs for the oldest pending notification of a live operator
CallbackRuns ==
    /\ OperatorAlive
    /\ mgr' = mgr
    /\ notifq # <<>>
    /\ notifq' = Tail(notifq)

\* the events poll holds, has applied or republished, and those a
\* subscriber can receive or has received
Observed ==
    (Range(applied) \cup Range(published)
        \cup { msg.event : msg \in Republished }
        \cup { ev[t] : t \in Threads }) \ {NoEvent}

\* C22: for a notification whose row decodes, callback pushes exactly one
\* event: Change for a parameter change, Add for an added instance, Delete
\* for a deleted instance, each with the decoded route; for any other kind it
\* pushes nothing, and nothing that poll applies or republishes or that a
\* subscriber receives is an event callback did not push.
C22_OneEventPerNotification ==
    /\ [][(CallbackRuns /\ RouteFromRow(Head(notifq).row) # PanicRoute) =>
            LET kind  == Head(notifq).kind
                route == RouteFromRow(Head(notifq).row)
                Pushes(type) ==
                    /\ pushed' = pushed \o <<[type |-> type, route |-> route]>>
                    /\ opChan' = opChan \o <<[type |-> type, route |-> route]>>
            IN  IF kind = "MibParameterNotification" THEN Pushes("Change")
                ELSE IF kind = "MibAddInstance" THEN Pushes("Add")
                ELSE IF kind = "MibDeleteInstance" THEN Pushes("Delete")
                ELSE pushed' = pushed /\ opChan' = opChan
         ]_vars
    /\ [](\A e \in Observed :
            /\ Count(applied, e) <= Count(pushed, e)
            /\ Count(published, e) <= Count(pushed, e)
            /\ Cardinality({msg \in Republished : msg.event = e}) <= Count(pushed, e))

\* C22 witness: of the two pending notifications callback has ignored one and
\* pushed an Add event for the other, which the subscriber has received.
C22_Witness ==
    /\ notifq = <<>>
    /\ fault = "none"
    /\ Len(pushed) = 1
    /\ pushed[1].type = "Add"
    /\ Len(received[1]) = 1
    /\ received[1][1].event = pushed[1]

\* C26: when callback is handed a row whose destination or next hop has a
\* family tag that is neither AF_INET nor AF_INET6, the decode yields no
\* Route, no event is pushed, and the process is not brought down.
C26_UnknownFamilyAbortsDecodeOnly ==
    [][LET row == Head(notifq).row
       IN  ( /\ CallbackRuns
             /\ \/ row.NextHop.si_family \notin {AF_INET, AF_INET6}
                \/ row.DestinationPrefix.Prefix.si_family \notin {AF_INET, AF_INET6} )
           => /\ RouteFromRow(row) = PanicRoute
              /\ pushed' = pushed
              /\ opChan' = opChan
              /\ fault' = "none"
      ]_vars

\* C23: while the manager lives and its poll loop keeps running, the n-th
\* event callback pushed is eventually the n-th event applied to the cache
\* and the n-th event republished; a poll that finds no pending event stays
\* in recv, and the cache and the subscriber channel stay as they are.
C23_PushedEventuallyRepublished ==
    /\ \A n \in 1..MaxMut :
          [](( /\ Len(pushed) >= n
               /\ mgr \in {"alive", "released"} )
             => <>( /\ Len(applied) >= n
                    /\ applied[n] = pushed[n]
                    /\ Len(published) >= n
                    /\ published[n] = pushed[n]
                    /\ \E i \in 1..Len(subChan) :
                          subChan[i] = [id |-> n, event |-> pushed[n]] ))
    /\ [][\A t \in Threads :
            (pollers = {t} /\ pc[t] = "recv" /\ opChan = <<>> /\ OperatorAlive)
            => /\ pc'[t] = "recv"
               /\ cache' = cache
               /\ applied' = applied
               /\ published' = published
               /\ subChan' = subChan
         ]_vars

\* C23 witness: two events were pushed, both have been applied and
\* republished in that order, and poll waits in recv on the empty channel.
C23_Witness ==
    /\ Len(pushed) = 2
    /\ applied = pushed
    /\ published = pushed
    /\ Len(subChan) = 2
    /\ pc[1] = "recv"
    /\ opChan = <<>>
    /\ notifq = <<>>

\* C24: what routes() returns is the whole cache as it is at the instant of
\* the call, an instant at which no thread is between the removal and the
\* push of a Change; the call leaves the cache as it is, and a later step of
\* poll that changes the cache leaves the returned copy as it is.
C24_RoutesIsSnapshot ==
    /\ [][(ret' # ret /\ ret'.op = "routes")
            => /\ ret'.val = [ok |-> TRUE, val |-> cache]
               /\ cache' = cache
               /\ \A t \in Threads : pc[t] # "push"
               /\ lock = 0
         ]_vars
    /\ [][(ret.op = "routes" /\ \E t \in Threads : Mutates(t)) => ret' = ret]_vars

\* C24 witness: routes() returned the cache, and poll has since applied a
\* Change that found its entry: the copy is the cache as it was before, the
\* cache is another.
C24_Witness ==
    /\ ret.op = "routes"
    /\ pc[1] = "send"
    /\ ev[1].type = "Change"
    /\ before # None
    /\ ret.val.val = unwrap(before)
    /\ cache # unwrap(before)

\* the number of threads inside poll at one of the positions pcs that hold
\* event e
Holding(pcs, e) == Cardinality({t \in Threads : pc[t] \in pcs /\ ev[t] = e})

\* the number of messages with event e in the subscriber channel or received
\* from it
Delivered(e) ==
    Count(EventsOf(subChan), e) + Count(EventsOf(received[1]), e)
                                + Count(EventsOf(received[2]), e)

\* C25: with two threads calling poll on a manager whose operator channel
\* is open, every event callback pushed is
\* received by one call of poll, applied to the cache once and republished
\* once: each pushed event is in the operator channel, or held by one thread
\* that has not yet applied it, or applied; each applied event is held by one
\* thread about to republish it, or published; each published event is one
\* message of the subscriber channel; no thread holds an event at any other
\* position.
C25_ExactlyOnceAcrossPollers ==
    (OperatorAlive /\ pollers = Threads) =>
        /\ \A e \in Range(pushed) \cup Range(applied) \cup Range(published)
                     \cup {ev[t] : t \in Threads} \cup Range(EventsOf(subChan)) :
              e # NoEvent =>
                /\ Count(pushed, e) = Count(opChan, e)
                                         + Holding({"lock", "apply", "push"}, e)
                                         + Count(applied, e)
                /\ Count(applied, e) = Holding({"send"}, e) + Count(published, e)
                /\ Count(published, e) = Delivered(e)
        /\ \A t \in Threads : pc[t] \in {"idle", "recv"} => ev[t] = NoEvent
        /\ \A i, j \in 1..Len(subChan) : subChan[i].id = subChan[j].id => i = j

\* C25 witness: two events were pushed, each thread received one of them,
\* both were applied and each thread is about to republish its own.
C25_Witness ==
    /\ OperatorAlive
    /\ pollers = Threads
    /\ Len(pushed) = 2
    /\ Len(applied) = 2
    /\ pc[1] = "send"
    /\ pc[2] = "send"
    /\ ev[1] # ev[2]
    /\ opChan = <<>>

====
